---- MODULE Spec2Model ----
(***************************************************************************)
(* The concurrent extraction pipeline of wal-g (internal/extract.go):      *)
(* ExtractAllWithSleeper runs waves of tryExtractFiles; every file of a    *)
(* wave gets a producer goroutine (DecryptAndDecompressTar writing into an *)
(* io.Pipe) and a consumer goroutine (FileExtractor.Extract reading from   *)
(* it), gated by two weighted semaphores.                                  *)
(***************************************************************************)
EXTENDS Integers, Sequences, FiniteSets, TLC

\* Largest configured download concurrency the model starts from.
MaxConcurrency == 3

\* Largest number of files in the input list.
MaxFiles == 2

\* Largest number of items in a tar stream given to extractOne.
MaxEntries == 3

\* Largest number of chunks in a decoded stream and in a destination file.
MaxStream == 2

\* ------------------------------------------------------------------------
\* Remote files (ReaderMaker values).  A file is identified by its path.

Files == {"a.tar", "b.gz", "data.xyz"}

\* ReaderMaker.Path()
Path(f) == f

\* utility.GetFileExtension: the text after the last dot of the path.
GetFileExtension(p) ==
    CASE p = "a.tar" -> "tar"
      [] p = "b.gz" -> "gz"
      [] p = "data.xyz" -> "xyz"

\* compression.Decompressors, by the extension each one declares.
Decompressors == <<"gz">>

\* The decoded content of a file, as the chunks the decode stage writes:
\* "hdr" is one tar entry, "end" the end-of-archive marker, "pad" bytes that
\* follow the marker.
Content(f) ==
    CASE f = "a.tar" -> <<"hdr", "end">>
      [] f = "b.gz" -> <<"hdr", "end", "pad">>
      [] f = "data.xyz" -> <<"hdr">>

\* ------------------------------------------------------------------------
\* Errors are the sequences of the parts of their message; nil is <<>>.

nil == <<>>

newNoFilesToExtractError == <<"ExtractAll: did not provide files to extract">>

newUnsupportedFileTypeError(p, fileFormat) ==
    <<"WAL-G does not support the file format '", fileFormat, "' in '", p, "'">>

Wrap(err, msg) == IF err = nil THEN nil ELSE <<msg, ": ">> \o err

ErrClosedPipe == <<"io: read/write on closed pipe">>

\* The bounds of the wait between waves, in minutes.
MinExtractRetryWait == 1

MaxExtractRetryWait == 5

\* NewExponentialSleeper(startSleepDuration, sleepDurationBound): the first wait
NewExponentialSleeper(startSleepDuration, sleepDurationBound) == startSleepDuration

\* The wait that follows wait d: doubled, not above the bound.
SleeperNext(d, sleepDurationBound) ==
    IF 2 * d > sleepDurationBound THEN sleepDurationBound ELSE 2 * d

VARIABLES
    files,                   \* the input list of ExtractAllWithSleeper
    maxDownloadConcurrency,  \* the configured maximum download concurrency
    crypter,                 \* TRUE when ConfigureCrypter() returns a crypter
    fileExtractor,           \* "tar" (TarFileExtractor) or "raw" (RawFileExtractor)
    pc,                      \* position of ExtractAllWithSleeper / tryExtractFiles
    downloadingConcurrency,  \* the loop's concurrency limit
    currentRun,              \* the files of the current wave
    failed,                  \* the value tryExtractFiles returned last
    result,                  \* the error ExtractAllWithSleeper returned
    downloadingSemaphore,    \* free weight of the decode semaphore
    writingSemaphore,        \* free weight of the extraction semaphore
    file,                    \* the file the launch loop is at
    launched,                \* files of the wave whose goroutines were started
    isFailed,                \* keys of the sync.Map
    producer,                \* per file: position of the decode goroutine
    consumer,                \* per file: position of the extraction goroutine
    decodeErr,               \* per file: err of the running decode goroutine
    extractErr,              \* per file: err of the running extraction goroutine
    written,                 \* per file: chunks passed through the pipe
    writerClosed,            \* per file: pipe write end closed
    readerClosed,            \* per file: pipe read end closed
    waves,                   \* history: [limit, run, failed] of finished waves
    sleeps,                  \* history: number of sleeper.Sleep() calls
    reported,                \* history: files a stage of this wave returned an error for
    everClean,               \* history: files that finished a wave with no error
    sleepDuration,           \* the sleeper's next wait, in minutes
    slept,                   \* history: the waits of the sleeper.Sleep() calls
    call,                    \* position of a function that is run on its own
    source,                  \* the chunks of the stream that function reads
    consumed,                \* the number of chunks it has taken from the stream
    failAt,                  \* input: the chunk at which its callee fails (0: none)
    faults,                  \* input: the system calls that fail
    interpreted,             \* history: the stream positions given to Interpret
    ret,                     \* the error the function returned
    disk,                    \* the bytes of the destination file of extractFile
    synced,                  \* the destination file was synced after its last write
    before,                  \* history: the bytes of the destination when extractFile was called
    readerMaker,             \* the file DecryptAndDecompressTar is called with
    extractor,               \* the reader of the pipe: "busy", "reading" or "eof"
    sourceOpen,              \* the source stream of DecryptAndDecompressTar is open
    closes,                  \* history: the number of Close calls on the source stream
    received                 \* history: the chunks read from the pipe

orchVars == <<files, maxDownloadConcurrency, crypter, fileExtractor, pc, downloadingConcurrency, currentRun,
              failed, result>>
waveVars == <<downloadingSemaphore, writingSemaphore, file, launched, isFailed>>
taskVars == <<producer, consumer, decodeErr, extractErr, written, writerClosed,
              readerClosed>>
sleeperVars == <<sleeps, sleepDuration, slept>>
histVars == <<waves, sleeperVars, reported, everClean>>
callVars == <<call, source, consumed, failAt, faults, ret>>
tarVars == <<interpreted>>
fileVars == <<disk, synced, before>>
streamVars == <<readerMaker, extractor, sourceOpen, closes, received>>
unitVars == <<callVars, tarVars, fileVars, streamVars>>
pipelineVars == <<orchVars, waveVars, taskVars, histVars>>
cfgVars == <<files, maxDownloadConcurrency, crypter, fileExtractor>>
loopVars == <<downloadingConcurrency, currentRun, failed, result>>
pipeVars == <<written, writerClosed, readerClosed>>
vars == <<orchVars, waveVars, taskVars, histVars, unitVars>>

None == "none"

\* The value of ExtractAllWithSleeper: an error and, for the aggregate error,
\* the paths its message lists.
Returned(e) == [err |-> e, paths |-> {}]

NotReturned == Returned(<<"(running)">>)

Inputs == {s \in SUBSET Files : Cardinality(s) <= MaxFiles}

\* The state before ExtractAllWithSleeper is entered: nothing runs.
PipelineAtEntry ==
    /\ pc = "entry"
    /\ downloadingConcurrency = 0
    /\ currentRun = {}
    /\ failed = {}
    /\ result = NotReturned
    /\ downloadingSemaphore = 0
    /\ writingSemaphore = 0
    /\ file = None
    /\ launched = {}
    /\ isFailed = {}
    /\ producer = [f \in Files |-> "idle"]
    /\ consumer = [f \in Files |-> "idle"]
    /\ decodeErr = [f \in Files |-> nil]
    /\ extractErr = [f \in Files |-> nil]
    /\ written = [f \in Files |-> 0]
    /\ writerClosed = [f \in Files |-> FALSE]
    /\ readerClosed = [f \in Files |-> FALSE]
    /\ waves = <<>>
    /\ sleeps = 0
    /\ reported = {}
    /\ everClean = {}
    /\ sleepDuration = NewExponentialSleeper(MinExtractRetryWait, MaxExtractRetryWait)
    /\ slept = <<>>

\* No function is run on its own.
NoCall ==
    /\ call = "none"
    /\ source = <<>>
    /\ consumed = 0
    /\ failAt = 0
    /\ faults = {}
    /\ interpreted = <<>>
    /\ ret = nil
    /\ disk = <<>>
    /\ synced = FALSE
    /\ before = <<>>
    /\ readerMaker = None
    /\ extractor = "busy"
    /\ sourceOpen = FALSE
    /\ closes = 0
    /\ received = <<>>

InitWith(limits) ==
    /\ files \in Inputs
    /\ crypter \in BOOLEAN
    /\ fileExtractor \in {"tar", "raw"}
    /\ maxDownloadConcurrency \in limits
    /\ PipelineAtEntry
    /\ NoCall

\* The configured concurrency is a positive integer.
ConfiguredConcurrencies == 1 .. MaxConcurrency

Init == InitWith(ConfiguredConcurrencies)

\* The halving scenario: a configured concurrency of 8, halved to 4, 2 and 1,
\* beside the largest of the small ones.
InitHalving == InitWith({MaxConcurrency, 8})

\* ------------------------------------------------------------------------
\* ExtractAllWithSleeper

\* Variant: the empty-input check is missing.
NoFilesNeverGiven(fs) == FALSE

\* len(files) == 0
NoFilesGiven(fs) == Cardinality(fs) = 0

\* Variant: the limit is lowered by one instead of halved.
HalveByOne(c) == c - 1

\* downloadingConcurrency /= 2
Halve(c) == c \div 2

\* Variant: the loop never gives up.
GivesUpNever(c, failedFiles, run) == FALSE

\* Variant: the failed files are compared with the whole input list.
GivesUpOnInput(c, failedFiles, run) ==
    /\ ~(c > 1)
    /\ Cardinality(failedFiles) = Cardinality(files)

\* Variant: a wave that fails entirely ends the run at any limit.
GivesUpAtAnyLimit(c, failedFiles, run) ==
    Cardinality(failedFiles) = Cardinality(run)

\* the else-if of the loop: the wave ran at limit 1 and all of it failed
GivesUp(c, failedFiles, run) ==
    /\ ~(c > 1)
    /\ Cardinality(failedFiles) = Cardinality(run)

\* Variant: the whole run is retried.
NextRunAll(run, failedFiles) == run

\* currentRun = failed
NextRun(run, failedFiles) == failedFiles

\* if len(failed) > 0 { sleeper.Sleep() }
SleepsAfter(failedFiles) == Cardinality(failedFiles) > 0

readerMakersToFilePaths(fs) == {Path(f) : f \in fs}

\* Variant: the aggregate error lists the whole input list.
AggregateErrorOfInput(fs) ==
    [err |-> <<"failed to extract files:">>, paths |-> readerMakersToFilePaths(files)]

AggregateError(fs) ==
    [err |-> <<"failed to extract files:">>, paths |-> readerMakersToFilePaths(fs)]

\* GetMaxDownloadConcurrency(): the configured value
GetMaxDownloadConcurrency == maxDownloadConcurrency

\* The entry of ExtractAllWithSleeper: the empty-input check and the read of
\* the configured concurrency.
Enter ==
    /\ pc = "entry"
    /\ IF NoFilesGiven(files)
         THEN /\ result' = Returned(newNoFilesToExtractError)
              /\ pc' = "done"
              /\ UNCHANGED <<currentRun, downloadingConcurrency>>
         ELSE /\ downloadingConcurrency' = GetMaxDownloadConcurrency
              /\ currentRun' = files
              /\ pc' = "loop"
              /\ result' = result
    /\ UNCHANGED <<cfgVars, failed>>
    /\ UNCHANGED <<waveVars, taskVars, histVars, unitVars>>

\* The loop condition, and on a non-empty run the call of tryExtractFiles up
\* to its launch loop: two fresh semaphores and an empty sync.Map.
StartWave ==
    /\ pc = "loop"
    /\ IF Cardinality(currentRun) > 0
         THEN /\ pc' = "launch"
              /\ downloadingSemaphore' = downloadingConcurrency
              /\ writingSemaphore' = downloadingConcurrency
              /\ isFailed' = {}
              /\ launched' = {}
              /\ file' = None
              /\ producer' = [f \in Files |-> "idle"]
              /\ consumer' = [f \in Files |-> "idle"]
              /\ decodeErr' = [f \in Files |-> nil]
              /\ extractErr' = [f \in Files |-> nil]
              /\ written' = [f \in Files |-> 0]
              /\ writerClosed' = [f \in Files |-> FALSE]
              /\ readerClosed' = [f \in Files |-> FALSE]
              /\ reported' = {}
              /\ result' = result
         ELSE /\ pc' = "done"
              /\ result' = Returned(nil)
              /\ UNCHANGED <<waveVars, taskVars, reported>>
    /\ UNCHANGED <<cfgVars, downloadingConcurrency, currentRun, failed>>
    /\ UNCHANGED <<waves, sleeperVars, unitVars, everClean>>

\* The loop body after tryExtractFiles returned: halve the limit while it is
\* above 1, else give up when the whole run failed; then the failed files are
\* the next run, after a sleep when there are any.
AfterWave ==
    /\ pc = "after"
    /\ IF GivesUp(downloadingConcurrency, failed, currentRun)
         THEN /\ result' = AggregateError(failed)
              /\ pc' = "done"
              /\ UNCHANGED <<downloadingConcurrency, currentRun, sleeperVars, unitVars>>
         ELSE /\ downloadingConcurrency' = IF downloadingConcurrency > 1
                                             THEN Halve(downloadingConcurrency)
                                             ELSE downloadingConcurrency
              /\ currentRun' = NextRun(currentRun, failed)
              /\ sleeps' = IF SleepsAfter(failed) THEN sleeps + 1 ELSE sleeps
              /\ slept' = IF SleepsAfter(failed) THEN Append(slept, sleepDuration) ELSE slept
              /\ sleepDuration' = IF SleepsAfter(failed)
                                    THEN SleeperNext(sleepDuration, MaxExtractRetryWait)
                                    ELSE sleepDuration
              /\ UNCHANGED unitVars
              /\ pc' = "loop"
              /\ result' = result
    /\ UNCHANGED <<cfgVars, failed, waves, reported, everClean>>
    /\ UNCHANGED <<waveVars, taskVars>>

\* ------------------------------------------------------------------------
\* tryExtractFiles: the launch loop, the drain and the collection

\* Variant: Acquire does not wait for free units.
CanAcquireAlways(free, n) == TRUE

\* semaphore.Weighted.Acquire(ctx, n) returns once n units are free
CanAcquire(free, n) == free >= n

\* Variant: the drain acquires a single unit.
DrainWeightOne(c) == 1

\* the weight the drain acquires from each semaphore
DrainWeight(c) == c

\* isFailed.Range appending every key to failed
RangeKeys(m) == m

\* downloadingSemaphore.Acquire(1) for the next file of the range loop
AcquireDownloading(f) ==
    /\ pc = "launch"
    /\ f \in currentRun \ launched
    /\ CanAcquire(downloadingSemaphore, 1)
    /\ downloadingSemaphore' = downloadingSemaphore - 1
    /\ file' = f
    /\ pc' = "acquired"
    /\ UNCHANGED <<cfgVars, loopVars, writingSemaphore, launched, isFailed>>
    /\ UNCHANGED <<taskVars, histVars, unitVars>>

\* Where the consumer goroutine starts: extractOne reads the stream at once
\* (tar.NewReader does no I/O), extractFile first makes the directory and
\* opens the destination.
ExtractEntry == IF fileExtractor = "tar" THEN "read" ELSE "extract"

\* writingSemaphore.Acquire(1), io.Pipe() and the two go statements
Launch ==
    /\ pc = "acquired"
    /\ CanAcquire(writingSemaphore, 1)
    /\ writingSemaphore' = writingSemaphore - 1
    /\ producer' = [producer EXCEPT ![file] = "open"]
    /\ consumer' = [consumer EXCEPT ![file] = ExtractEntry]
    /\ launched' = launched \cup {file}
    /\ file' = None
    /\ pc' = "launch"
    /\ UNCHANGED <<cfgVars, loopVars, downloadingSemaphore, isFailed>>
    /\ UNCHANGED <<decodeErr, extractErr, pipeVars, histVars, unitVars>>

\* downloadingSemaphore.Acquire(downloadingConcurrency) after the range loop
DrainDownloading ==
    /\ pc = "launch"
    /\ launched = currentRun
    /\ CanAcquire(downloadingSemaphore, DrainWeight(downloadingConcurrency))
    /\ downloadingSemaphore' = downloadingSemaphore - DrainWeight(downloadingConcurrency)
    /\ pc' = "drain"
    /\ UNCHANGED <<cfgVars, loopVars, writingSemaphore, file, launched, isFailed>>
    /\ UNCHANGED <<taskVars, histVars, unitVars>>

\* writingSemaphore.Acquire(downloadingConcurrency)
DrainWriting ==
    /\ pc = "drain"
    /\ CanAcquire(writingSemaphore, DrainWeight(downloadingConcurrency))
    /\ writingSemaphore' = writingSemaphore - DrainWeight(downloadingConcurrency)
    /\ pc' = "collect"
    /\ UNCHANGED <<cfgVars, loopVars, downloadingSemaphore, file, launched, isFailed>>
    /\ UNCHANGED <<taskVars, histVars, unitVars>>

\* files of a run for which neither stage reported an error
CleanFiles(run) == run \ reported

\* isFailed.Range and the return of tryExtractFiles
Collect ==
    /\ pc = "collect"
    /\ failed' = RangeKeys(isFailed)
    /\ waves' = Append(waves, [limit |-> downloadingConcurrency,
                               run |-> currentRun,
                               failed |-> RangeKeys(isFailed)])
    /\ everClean' = everClean \cup CleanFiles(currentRun)
    /\ pc' = "after"
    /\ UNCHANGED <<cfgVars, downloadingConcurrency, currentRun, result, sleeperVars, unitVars, reported>>
    /\ UNCHANGED <<waveVars, taskVars>>

\* ------------------------------------------------------------------------
\* DecryptAndDecompressTar and the producer goroutine

IsRegistered(ext) == \E i \in 1 .. Len(Decompressors) : Decompressors[i] = ext

ReaderError == <<"storage: cannot read object">>
DecryptError == <<"crypto: cannot decrypt">>

\* Variant: the type of the file is checked before the stream is decrypted.
DecodeStartTypeFirst(p, hasCrypter, openOK, decryptOK) ==
    IF ~openOK
      THEN <<"DecryptAndDecompressTar: failed to create new reader", ": ">> \o ReaderError
    ELSE IF GetFileExtension(p) # "tar" /\ ~IsRegistered(GetFileExtension(p))
      THEN newUnsupportedFileTypeError(p, GetFileExtension(p))
    ELSE IF hasCrypter /\ ~decryptOK
      THEN <<"DecryptAndDecompressTar: decrypt failed", ": ">> \o DecryptError
    ELSE nil

\* Variant: an extension no decompressor declares is copied through like tar.
DecodeStartAnyType(p, hasCrypter, openOK, decryptOK) ==
    IF ~openOK
      THEN Wrap(ReaderError, "DecryptAndDecompressTar: failed to create new reader")
    ELSE IF hasCrypter /\ ~decryptOK
      THEN Wrap(DecryptError, "DecryptAndDecompressTar: decrypt failed")
    ELSE nil

\* DecryptAndDecompressTar up to its first write: the open, the decryption
\* wrap and the choice of the codec by the extension.  nil: the copy starts.
DecodeStart(p, hasCrypter, openOK, decryptOK) ==
    IF ~openOK
      THEN Wrap(ReaderError, "DecryptAndDecompressTar: failed to create new reader")
    ELSE IF hasCrypter /\ ~decryptOK
      THEN Wrap(DecryptError, "DecryptAndDecompressTar: decrypt failed")
    ELSE IF GetFileExtension(p) = "tar"
      THEN nil
    ELSE IF IsRegistered(GetFileExtension(p))
      THEN nil
    ELSE newUnsupportedFileTypeError(p, GetFileExtension(p))

\* What DecryptAndDecompressTar returns when the copy ends with cause
\* (nil: the source was copied to its end).
DecodeEnd(p, cause) ==
    IF GetFileExtension(p) = "tar"
      THEN Wrap(cause, "DecryptAndDecompressTar: tar extract failed")
      ELSE Wrap(Wrap(cause, "DecompressGzip: gzip write failed"),
                "DecryptAndDecompressTar: gz decompress failed. Is archive encrypted?")

\* Variant: the source stream is closed at the end of a successful decode only.
LoggedCloseOnSuccess(opened, err) == IF opened /\ err = nil THEN 1 ELSE 0

\* defer utility.LoggedClose(readCloser, ""): the Close calls on the source
\* stream when DecryptAndDecompressTar returns err; the defer is registered
\* once the stream is open and closes the stream that was opened.
LoggedCloseOnReturn(opened, err) == IF opened THEN 1 ELSE 0

\* Variant: every write is passed on to the pipe.
ForwardsEveryWrite(chunk) == FALSE

\* EmptyWriteIgnorer.Write: len(p) == 0, the write returns (0, nil) at once
IgnoresWrite(chunk) == chunk = ""

\* Variant: the producer does not record its failure.
StoreDecodeFailureNever(m, f, err) == m

\* if err != nil { isFailed.Store(fileClosure, true) } of the producer
StoreDecodeFailure(m, f, err) == IF err # nil THEN m \cup {f} ELSE m

\* Variant: the consumer does not record its failure.
StoreExtractFailureNever(m, f, err) == m

\* if err != nil { isFailed.Store(fileClosure, true) } of the consumer
StoreExtractFailure(m, f, err) == IF err # nil THEN m \cup {f} ELSE m

\* Variant: the write end is closed only when the decode stage succeeded.
CloseWriterOnSuccess(closed, f, err) == [closed EXCEPT ![f] = (err = nil)]

\* utility.LoggedClose(decompressingWriter, ""): the write end of the pipe is
\* closed whatever DecryptAndDecompressTar returned
CloseWriter(closed, f, err) == [closed EXCEPT ![f] = TRUE]

\* DecryptAndDecompressTar returned err: utility.LoggedClose(decompressingWriter)
\* and the record of the failure (the goroutine up to its deferred Release).
ProducerReturns(f, err) ==
    /\ decodeErr' = [decodeErr EXCEPT ![f] = err]
    /\ writerClosed' = CloseWriter(writerClosed, f, err)
    /\ isFailed' = StoreDecodeFailure(isFailed, f, err)
    /\ producer' = [producer EXCEPT ![f] = "release"]
    /\ reported' = IF err # nil THEN reported \cup {f} ELSE reported
    /\ UNCHANGED <<orchVars, downloadingSemaphore, writingSemaphore, file, launched>>
    /\ UNCHANGED <<consumer, extractErr, written, readerClosed>>
    /\ UNCHANGED <<waves, sleeperVars, unitVars, everClean>>

\* The start of DecryptAndDecompressTar: it returns an error, or starts to copy.
ProducerOpen(f) ==
    /\ producer[f] = "open"
    /\ \E openOK \in BOOLEAN, decryptOK \in (IF crypter THEN BOOLEAN ELSE {TRUE}) :
         LET e == DecodeStart(Path(f), crypter, openOK, decryptOK) IN
           IF e = nil
             THEN /\ producer' = [producer EXCEPT ![f] = "copy"]
                  /\ UNCHANGED <<orchVars, waveVars, consumer, decodeErr, extractErr,
                                 pipeVars, histVars, unitVars>>
             ELSE ProducerReturns(f, e)

\* The source or the codec reports an error during the copy.
ProducerSourceError(f) ==
    /\ producer[f] = "copy"
    /\ ProducerReturns(f, DecodeEnd(Path(f), ReaderError))

\* A write to the pipe whose read end is closed: io.ErrClosedPipe.
ProducerWriteClosed(f) ==
    /\ producer[f] = "copy"
    /\ written[f] < Len(Content(f))
    /\ readerClosed[f]
    /\ ProducerReturns(f, DecodeEnd(Path(f), ErrClosedPipe))

\* The source is at its end: the copy returns without error.
ProducerEnd(f) ==
    /\ producer[f] = "copy"
    /\ written[f] = Len(Content(f))
    /\ ProducerReturns(f, DecodeEnd(Path(f), nil))

\* defer downloadingSemaphore.Release(1)
ProducerRelease(f) ==
    /\ producer[f] = "release"
    /\ downloadingSemaphore' = downloadingSemaphore + 1
    /\ producer' = [producer EXCEPT ![f] = "done"]
    /\ decodeErr' = [decodeErr EXCEPT ![f] = nil]
    /\ UNCHANGED <<orchVars, writingSemaphore, file, launched, isFailed>>
    /\ UNCHANGED <<consumer, extractErr, pipeVars, histVars, unitVars>>

\* ------------------------------------------------------------------------
\* FileExtractor.Extract and the consumer goroutine

MkdirError == <<"mkdir: permission denied">>
ErrInvalid == <<"invalid argument">>
WriteError == <<"write: no space left on device">>
SyncError == <<"sync: input/output error">>
InterpretError == <<"interpret: cannot create file">>
ErrHeader == <<"archive/tar: invalid tar header">>

\* errors.Wrapf(err, "Extraction error in %s", filePath)
WrapExtraction(err, p) ==
    IF err = nil THEN nil ELSE <<"Extraction error in ", p, ": ">> \o err

\* extractFile before its copy: MkdirAll, whose error is returned, and
\* OpenFile, whose error is dropped: io.Copy then fails on the invalid file.
ExtractFileOpen(mkdirOK, openOK) ==
    IF ~mkdirOK THEN MkdirError
    ELSE IF ~openOK THEN Wrap(ErrInvalid, "Extract: copy failed")
    ELSE nil

\* The error of os.OpenFile, which extractFile assigns and never reads.
OpenError == <<"open: permission denied">>

\* Variant: the destination is opened without O_TRUNC.
OpenFileKeepsBytes(bytes) == bytes

\* os.OpenFile(filePath, O_WRONLY|O_CREATE|O_TRUNC): the bytes of the opened file
OpenFile(bytes) == <<>>

\* file.Write of the copy at the file's offset: the chunk replaces what is
\* there or extends the file.
WriteAt(bytes, offset, chunk) ==
    IF offset < Len(bytes)
      THEN [bytes EXCEPT ![offset + 1] = chunk]
      ELSE Append(bytes, chunk)

\* Variant: the result of file.Sync() is not returned.
ExtractFileSyncUnchecked(syncOK) == nil

\* extractFile after its copy reached the end of the stream: file.Sync()
ExtractFileSync(syncOK) ==
    Wrap(IF syncOK THEN nil ELSE SyncError, "Extract: sync failed")

\* Variant: an error of the interpreter is logged and the loop goes on.
ExtractOneStepGoesOn(chunk, interpretOK) ==
    IF chunk = "end" THEN [return |-> TRUE, err |-> nil]
    ELSE IF chunk # "hdr"
      THEN [return |-> TRUE, err |-> <<"extractOne: tar extract failed", ": ",
                                       "archive/tar: invalid tar header">>]
    ELSE [return |-> FALSE, err |-> nil]

\* extractOne on one chunk read from the stream: "go on" to read the next one,
\* or the value extractOne returns.
ExtractOneStep(chunk, interpretOK) ==
    IF chunk = "end" THEN [return |-> TRUE, err |-> nil]
    ELSE IF chunk # "hdr"
      THEN [return |-> TRUE, err |-> Wrap(ErrHeader, "extractOne: tar extract failed")]
    ELSE IF ~interpretOK
      THEN [return |-> TRUE, err |-> Wrap(InterpretError, "extractOne: Extract failed")]
    ELSE [return |-> FALSE, err |-> nil]

\* extractFile on one chunk read from the stream (the loop of io.Copy)
ExtractFileStep(chunk, writeOK) ==
    IF ~writeOK
      THEN [return |-> TRUE, err |-> Wrap(WriteError, "Extract: copy failed")]
      ELSE [return |-> FALSE, err |-> nil]

ExtractStep(chunk, ok) ==
    IF fileExtractor = "tar" THEN ExtractOneStep(chunk, ok) ELSE ExtractFileStep(chunk, ok)

\* Variant: the read end is closed only when Extract succeeded.
CloseReaderOnSuccess(closed, f, err) == [closed EXCEPT ![f] = (err = nil)]

\* utility.LoggedClose(extractingReader, ""): the read end of the pipe is
\* closed whatever Extract returned
CloseReader(closed, f, err) == [closed EXCEPT ![f] = TRUE]

\* Extract returned err: the wrap of the error, utility.LoggedClose(extractingReader)
\* and the record of the failure (the goroutine up to its deferred Release).
ConsumerReturns(f, err) ==
    /\ extractErr' = [extractErr EXCEPT ![f] = WrapExtraction(err, Path(f))]
    /\ readerClosed' = CloseReader(readerClosed, f, err)
    /\ isFailed' = StoreExtractFailure(isFailed, f, WrapExtraction(err, Path(f)))
    /\ consumer' = [consumer EXCEPT ![f] = "release"]
    /\ reported' = IF err # nil THEN reported \cup {f} ELSE reported
    /\ UNCHANGED <<orchVars, downloadingSemaphore, writingSemaphore, file, launched>>
    /\ UNCHANGED <<producer, decodeErr, writerClosed>>
    /\ UNCHANGED <<waves, sleeperVars, unitVars, everClean>>

\* The start of extractFile: the mkdir and the open of the destination.
ConsumerBegin(f) ==
    /\ consumer[f] = "extract"
    /\ \E mkdirOK \in BOOLEAN, openOK \in BOOLEAN :
         LET e == ExtractFileOpen(mkdirOK, openOK) IN
           IF e = nil
             THEN /\ consumer' = [consumer EXCEPT ![f] = "read"]
                  /\ UNCHANGED <<orchVars, waveVars, producer, decodeErr, extractErr,
                                 pipeVars, histVars, unitVars>>
             ELSE /\ ConsumerReturns(f, e)
                  /\ written' = written

\* One chunk passes through the pipe: the producer's Write and the Read of
\* the consumer that is waiting for it, and what Extract does with the chunk.
Transfer(f) ==
    /\ producer[f] = "copy"
    /\ consumer[f] = "read"
    /\ written[f] < Len(Content(f))
    /\ written' = [written EXCEPT ![f] = written[f] + 1]
    /\ \E ok \in BOOLEAN :
         LET r == ExtractStep(Content(f)[written[f] + 1], ok) IN
           IF r.return
             THEN ConsumerReturns(f, r.err)
             ELSE UNCHANGED <<orchVars, waveVars, producer, consumer, decodeErr,
                              extractErr, writerClosed, readerClosed, histVars, unitVars>>

\* A Read of the pipe whose write end is closed: io.EOF, the end of the stream.
ConsumerEOF(f) ==
    /\ consumer[f] = "read"
    /\ writerClosed[f]
    /\ written' = written
    /\ \E syncOK \in (IF fileExtractor = "tar" THEN {TRUE} ELSE BOOLEAN) :
         ConsumerReturns(f, IF fileExtractor = "tar" THEN nil ELSE ExtractFileSync(syncOK))

\* defer writingSemaphore.Release(1)
ConsumerRelease(f) ==
    /\ consumer[f] = "release"
    /\ writingSemaphore' = writingSemaphore + 1
    /\ consumer' = [consumer EXCEPT ![f] = "done"]
    /\ extractErr' = [extractErr EXCEPT ![f] = nil]
    /\ UNCHANGED <<orchVars, downloadingSemaphore, file, launched, isFailed>>
    /\ UNCHANGED <<producer, decodeErr, pipeVars, histVars, unitVars>>

\* ------------------------------------------------------------------------

Next ==
    \/ Enter
    \/ StartWave
    \/ AfterWave
    \/ \E f \in Files : AcquireDownloading(f)
    \/ Launch
    \/ DrainDownloading
    \/ DrainWriting
    \/ Collect
    \/ \E f \in Files : ProducerOpen(f)
    \/ \E f \in Files : ProducerSourceError(f)
    \/ \E f \in Files : ProducerWriteClosed(f)
    \/ \E f \in Files : ProducerEnd(f)
    \/ \E f \in Files : ProducerRelease(f)
    \/ \E f \in Files : ConsumerBegin(f)
    \/ \E f \in Files : Transfer(f)
    \/ \E f \in Files : ConsumerEOF(f)
    \/ \E f \in Files : ConsumerRelease(f)

Spec == Init /\ [][Next]_vars

\* The runs of the halving scenario.
HalvingSpec == InitHalving /\ [][Next]_vars

\* The runs in which slots are contended: the configured concurrency is not
\* above the largest number of files, so the launch loop and the drain have
\* to wait for goroutines to release.
InitContended == InitWith(1 .. MaxFiles)

ContendedSpec == InitContended /\ [][Next]_vars

\* ------------------------------------------------------------------------
\* extractOne run on its own, on any stream of tar items

\* The configuration while a function is run on its own: no pipeline runs.
NoPipeline ==
    /\ files = {}
    /\ maxDownloadConcurrency = 1
    /\ fileExtractor = "tar"
    /\ PipelineAtEntry

\* The streams of at most n chunks of an alphabet.
Streams(alphabet, n) == UNION {[1 .. k -> alphabet] : k \in 0 .. n}

\* What a tar stream is made of: an entry, the end-of-archive marker, and
\* bytes that are no header.
TarItems == {"hdr", "end", "pad"}

\* extractOne(tarInterpreter, source) is called: any stream, and an
\* interpreter that fails on at most one entry.
InitExtractOne ==
    /\ NoPipeline
    /\ crypter = FALSE
    /\ call = "extractOne"
    /\ source \in Streams(TarItems, MaxEntries)
    /\ failAt \in 0 .. MaxEntries
    /\ consumed = 0
    /\ faults = {}
    /\ interpreted = <<>>
    /\ ret = nil
    /\ disk = <<>>
    /\ synced = FALSE
    /\ before = <<>>
    /\ readerMaker = None
    /\ extractor = "busy"
    /\ sourceOpen = FALSE
    /\ closes = 0
    /\ received = <<>>

\* One turn of the loop of extractOne with an item left in the stream:
\* tarReader.Next() and, on a header, tarInterpreter.Interpret.
ExtractOneEntry ==
    /\ call = "extractOne"
    /\ consumed < Len(source)
    /\ LET chunk == source[consumed + 1]
           r == ExtractOneStep(chunk, consumed + 1 # failAt)
       IN /\ consumed' = consumed + 1
          /\ interpreted' = IF chunk = "hdr"
                               THEN Append(interpreted, consumed + 1)
                               ELSE interpreted
          /\ ret' = r.err
          /\ call' = IF r.return THEN "returned" ELSE call
    /\ UNCHANGED <<source, failAt, faults, fileVars, streamVars, pipelineVars>>

\* tarReader.Next() at the end of the stream: io.EOF, break, return nil.
ExtractOneEOF ==
    /\ call = "extractOne"
    /\ consumed = Len(source)
    /\ ret' = nil
    /\ call' = "returned"
    /\ UNCHANGED <<source, consumed, failAt, faults, tarVars, fileVars, streamVars,
                   pipelineVars>>

ExtractOneNext == ExtractOneEntry \/ ExtractOneEOF

ExtractOneSpec == InitExtractOne /\ [][ExtractOneNext]_vars

\* ------------------------------------------------------------------------
\* extractFile run on its own, again and again on one destination path

Bytes == {"x", "y"}

\* The system calls of extractFile that can fail.
FileFaults == {"mkdir", "open", "sync"}

\* extractFile(source, filePath) is called with any decoded stream and any
\* failing system calls (failAt: the write that fails).
ExtractFileCalled ==
    /\ call' = "extractFile"
    /\ source' \in Streams(Bytes, MaxStream)
    /\ faults' \in SUBSET FileFaults
    /\ failAt' \in 0 .. MaxStream
    /\ consumed' = 0
    /\ ret' = nil

\* The first call: the destination holds anything, synced or not.
InitExtractFile ==
    /\ NoPipeline
    /\ crypter = FALSE
    /\ call = "extractFile"
    /\ source \in Streams(Bytes, MaxStream)
    /\ faults \in SUBSET FileFaults
    /\ failAt \in 0 .. MaxStream
    /\ consumed = 0
    /\ ret = nil
    /\ disk \in Streams(Bytes, MaxStream)
    /\ synced \in BOOLEAN
    /\ before = disk
    /\ interpreted = <<>>
    /\ readerMaker = None
    /\ extractor = "busy"
    /\ sourceOpen = FALSE
    /\ closes = 0
    /\ received = <<>>

\* os.MkdirAll and os.OpenFile: the mkdir error is returned; the open error
\* is dropped and the copy into the nil file fails before it reads.
ExtractFileBegin ==
    /\ call = "extractFile"
    /\ LET e == ExtractFileOpen("mkdir" \notin faults, "open" \notin faults) IN
         /\ ret' = e
         /\ call' = IF e = nil THEN "copy" ELSE "returned"
         /\ disk' = IF e = nil THEN OpenFile(disk) ELSE disk
         /\ synced' = IF e = nil THEN FALSE ELSE synced
    /\ UNCHANGED <<before, source, consumed, failAt, faults, tarVars, streamVars, pipelineVars>>

\* One turn of io.Copy with a chunk left in the stream: the write to the file.
ExtractFileWrite ==
    /\ call = "copy"
    /\ consumed < Len(source)
    /\ LET r == ExtractFileStep(source[consumed + 1], consumed + 1 # failAt) IN
         /\ ret' = r.err
         /\ call' = IF r.return THEN "returned" ELSE call
         /\ disk' = IF r.return THEN disk ELSE WriteAt(disk, consumed, source[consumed + 1])
    /\ consumed' = consumed + 1
    /\ synced' = FALSE
    /\ UNCHANGED <<before, source, failAt, faults, tarVars, streamVars, pipelineVars>>

\* io.Copy at the end of the stream, then file.Sync() and the return.
ExtractFileEOF ==
    /\ call = "copy"
    /\ consumed = Len(source)
    /\ ret' = ExtractFileSync("sync" \notin faults)
    /\ synced' = ("sync" \notin faults)
    /\ call' = "returned"
    /\ UNCHANGED <<before, source, consumed, failAt, faults, disk, tarVars, streamVars, pipelineVars>>

\* The file is extracted again into the same destination (a retry wave).
ExtractFileAgain ==
    /\ call = "returned"
    /\ ExtractFileCalled
    /\ before' = disk
    /\ UNCHANGED <<disk, synced, tarVars, streamVars, pipelineVars>>

ExtractFileNext ==
    \/ ExtractFileBegin
    \/ ExtractFileWrite
    \/ ExtractFileEOF
    \/ ExtractFileAgain

ExtractFileSpec == InitExtractFile /\ [][ExtractFileNext]_vars

\* ------------------------------------------------------------------------
\* DecryptAndDecompressTar run on its own, writing through an
\* EmptyWriteIgnorer into a pipe that a reader empties

\* What the decode stage writes: chunks of data and zero-length writes.
Writes == Bytes \cup {""}

\* The calls of DecryptAndDecompressTar that can fail before the copy.
DecodeFaults == {"reader", "decrypt"}

\* DecryptAndDecompressTar(writer, readerMaker, crypter) is called on any
\* file; failAt is the write before which the source or the codec fails.
InitDecode ==
    /\ NoPipeline
    /\ crypter \in BOOLEAN
    /\ call = "decode"
    /\ readerMaker \in Files
    /\ source \in Streams(Writes, MaxStream)
    /\ faults \in SUBSET DecodeFaults
    /\ failAt \in 0 .. MaxStream
    /\ consumed = 0
    /\ ret = nil
    /\ extractor = "busy"
    /\ sourceOpen = FALSE
    /\ closes = 0
    /\ received = <<>>
    /\ interpreted = <<>>
    /\ disk = <<>>
    /\ synced = FALSE
    /\ before = <<>>

\* DecryptAndDecompressTar returns err: the deferred close of the source.
DecodeReturns(err) ==
    /\ ret' = err
    /\ call' = "returned"
    /\ closes' = closes + LoggedCloseOnReturn("reader" \notin faults, err)
    /\ sourceOpen' = IF LoggedCloseOnReturn("reader" \notin faults, err) > 0
                        THEN FALSE
                        ELSE "reader" \notin faults

\* readerMaker.Reader(), crypter.Decrypt and the choice of the codec.
DecodeBegin ==
    /\ call = "decode"
    /\ LET e == DecodeStart(Path(readerMaker), crypter, "reader" \notin faults,
                            "decrypt" \notin faults) IN
         IF e = nil
           THEN /\ call' = "copy"
                /\ sourceOpen' = TRUE
                /\ UNCHANGED <<ret, closes>>
           ELSE DecodeReturns(e)
    /\ UNCHANGED <<source, consumed, failAt, faults, readerMaker, extractor, received,
                   tarVars, fileVars, pipelineVars>>

\* One Write of the copy: a zero-length write returns at once, any other
\* one is handed to the reader that waits in Read.
DecodeWrite ==
    /\ call = "copy"
    /\ consumed < Len(source)
    /\ consumed + 1 # failAt
    /\ IF IgnoresWrite(source[consumed + 1])
         THEN UNCHANGED <<extractor, received>>
         ELSE /\ extractor = "reading"
              /\ extractor' = "busy"
              /\ received' = Append(received, source[consumed + 1])
    /\ consumed' = consumed + 1
    /\ UNCHANGED <<call, source, failAt, faults, ret, readerMaker, sourceOpen, closes,
                   tarVars, fileVars, pipelineVars>>

\* The source or the codec fails: the copy returns its error.
DecodeFails ==
    /\ call = "copy"
    /\ consumed + 1 = failAt
    /\ DecodeReturns(DecodeEnd(Path(readerMaker), ReaderError))
    /\ UNCHANGED <<source, consumed, failAt, faults, readerMaker, extractor, received,
                   tarVars, fileVars, pipelineVars>>

\* The source is at its end: the copy returns nil.
DecodeEnds ==
    /\ call = "copy"
    /\ consumed = Len(source)
    /\ consumed + 1 # failAt
    /\ DecodeReturns(DecodeEnd(Path(readerMaker), nil))
    /\ UNCHANGED <<source, consumed, failAt, faults, readerMaker, extractor, received,
                   tarVars, fileVars, pipelineVars>>

\* The reader of the pipe calls Read.
ExtractorRead ==
    /\ extractor = "busy"
    /\ extractor' = "reading"
    /\ UNCHANGED <<callVars, readerMaker, sourceOpen, closes, received,
                   tarVars, fileVars, pipelineVars>>

\* Read after the write end was closed (the decode stage returned): io.EOF.
ExtractorEOF ==
    /\ extractor = "reading"
    /\ call = "returned"
    /\ extractor' = "eof"
    /\ UNCHANGED <<callVars, readerMaker, sourceOpen, closes, received,
                   tarVars, fileVars, pipelineVars>>

DecodeNext ==
    \/ DecodeBegin
    \/ DecodeWrite
    \/ DecodeFails
    \/ DecodeEnds
    \/ ExtractorRead
    \/ ExtractorEOF

DecodeSpec == InitDecode /\ [][DecodeNext]_vars


TypeOK ==
    /\ files \subseteq Files
    /\ pc \in {"entry", "loop", "launch", "acquired", "drain", "collect", "after", "done"}
    /\ downloadingConcurrency \in Nat
    /\ downloadingSemaphore \in 0 .. downloadingConcurrency
    /\ writingSemaphore \in 0 .. downloadingConcurrency
    /\ currentRun \subseteq files

\* ------------------------------------------------------------------------
\* Properties

Done == pc = "done"

Succeeded == Done /\ result = Returned(nil)

GaveUp == Done /\ result.err = <<"failed to extract files:">>

InWave == pc \in {"launch", "acquired", "drain", "collect"}

RECURSIVE Log2Floor(_)
Log2Floor(n) == IF n <= 1 THEN 0 ELSE 1 + Log2Floor(n \div 2)

\* The limit of wave i of a run configured with c: c halved i - 1 times, not below 1.
ExpectedLimit(c, i) == IF c \div 2^(i - 1) >= 1 THEN c \div 2^(i - 1) ELSE 1

\* Input files that were in the failed set of every wave they took part in.
NeverCompleted ==
    {f \in files : \A i \in 1 .. Len(waves) : f \in waves[i].run => f \in waves[i].failed}

\* Every wave so far failed entirely.
EveryWaveFailed == \A i \in 1 .. Len(waves) : waves[i].failed = waves[i].run

Unsupported(f) ==
    /\ GetFileExtension(Path(f)) # "tar"
    /\ ~IsRegistered(GetFileExtension(Path(f)))

RunningProducers == {f \in Files : producer[f] \in {"open", "copy", "release"}}

RunningConsumers == {f \in Files : consumer[f] \in {"extract", "read", "release"}}

TasksFinished ==
    \A f \in Files : producer[f] \in {"idle", "done"} /\ consumer[f] \in {"idle", "done"}

\* C1: ExtractAllWithSleeper returns nil only if every input file took part in
\* a wave in which neither its decode stage nor its extraction stage returned
\* an error; every file a stage returned an error for is in the failed set of
\* its wave, and a decode failure is recorded whatever the extraction returned.
C1_SuccessOnlyWhenEveryFileClean ==
    /\ Succeeded => files \subseteq everClean
    /\ pc = "after" => reported \subseteq failed
    /\ \A f \in Files : (producer[f] = "release" /\ decodeErr[f] # nil) => f \in isFailed

C1_Witness ==
    /\ Succeeded
    /\ Cardinality(files) = 2
    /\ Len(waves) >= 2
    /\ waves[1].failed # {}

\* C2: the aggregate error lists exactly the input files that never completed
\* a wave without a recorded failure; they are the files of the last wave, and
\* none of them ever finished a wave with no error.
C2_AggregateListsNeverCompleted ==
    GaveUp =>
        /\ result.paths = readerMakersToFilePaths(NeverCompleted)
        /\ NeverCompleted = waves[Len(waves)].run
        /\ NeverCompleted \cap everClean = {}

C2_Witness ==
    /\ GaveUp
    /\ Cardinality(files) = 2
    /\ Cardinality(result.paths) = 1

\* C3: wave N+1 attempts exactly the files that wave N recorded as failed, so
\* its failed set is a subset of the failed set of wave N, and no goroutine
\* runs for a file outside the current run.
C3_ProgressMonotonicity ==
    /\ \A i \in 1 .. Len(waves) - 1 :
         /\ waves[i + 1].run = waves[i].failed
         /\ waves[i + 1].failed \subseteq waves[i].failed
    /\ \A i \in 1 .. Len(waves) : waves[i].failed \subseteq waves[i].run
    /\ (InWave /\ Len(waves) >= 1) => currentRun = waves[Len(waves)].failed
    /\ InWave => (RunningProducers \cup RunningConsumers) \subseteq currentRun

C3_Witness ==
    /\ Len(waves) >= 2
    /\ waves[1].failed # waves[1].run
    /\ waves[2].failed # waves[1].failed

\* C4: the limits of the successive waves are C0, C0/2, C0/4, ... (floor) down
\* to 1 and then 1; a sleep separates consecutive waves; with C0 = 8 and input
\* files that fail in every wave exactly four waves run, at 8, 4, 2, 1, with
\* three sleeps, and the aggregate error names the files.
C4_ConcurrencyHalving ==
    /\ \A i \in 1 .. Len(waves) :
         waves[i].limit = ExpectedLimit(maxDownloadConcurrency, i)
    /\ InWave =>
         /\ downloadingConcurrency = ExpectedLimit(maxDownloadConcurrency, Len(waves) + 1)
         /\ downloadingConcurrency >= 1
         /\ sleeps = Len(waves)
    /\ (Done /\ maxDownloadConcurrency = 8 /\ NeverCompleted # {}) =>
         /\ Len(waves) >= 4
         /\ <<waves[1].limit, waves[2].limit, waves[3].limit, waves[4].limit>> = <<8, 4, 2, 1>>
         /\ GaveUp
         /\ readerMakersToFilePaths(NeverCompleted) \subseteq result.paths
    /\ (Done /\ maxDownloadConcurrency = 8 /\ files # {} /\ EveryWaveFailed) =>
         /\ Len(waves) = 4
         /\ sleeps = 3
         /\ result = [err |-> <<"failed to extract files:">>,
                      paths |-> readerMakersToFilePaths(files)]

C4_Witness ==
    /\ GaveUp
    /\ maxDownloadConcurrency = 8
    /\ Cardinality(files) = 1
    /\ Len(waves) = 4
    /\ sleeps = 3

\* C5: a wave that ran at limit 1 and failed entirely is the last wave: the
\* aggregate error is returned with no sleep and no wave after it.
C5_AllFailAtOneAborts ==
    \A i \in 1 .. Len(waves) :
        (waves[i].limit = 1 /\ waves[i].failed = waves[i].run) =>
            /\ i = Len(waves)
            /\ pc \in {"after", "done"}
            /\ sleeps = Len(waves) - 1
            /\ Done => result = [err |-> <<"failed to extract files:">>,
                                 paths |-> readerMakersToFilePaths(waves[i].failed)]

C5_Witness ==
    /\ GaveUp
    /\ sleeps >= 1
    /\ Cardinality(result.paths) = 2

\* C6: with zero files ExtractAllWithSleeper returns the no-files-to-extract
\* error, and runs no wave, starts no goroutine and does not sleep.
C6_EmptyInputRejected ==
    files = {} =>
        /\ pc \in {"entry", "done"}
        /\ pc = "entry" => result = NotReturned
        /\ Done => result = Returned(<<"ExtractAll: did not provide files to extract">>)
        /\ waves = <<>>
        /\ sleeps = 0
        /\ launched = {}
        /\ \A f \in Files : producer[f] = "idle" /\ consumer[f] = "idle"

C6_Witness == files = {} /\ Done

C8_UnsupportedSurfaces ==
    \A f \in files : Unsupported(f) =>
        /\ producer[f] = "release" =>
             /\ decodeErr[f] # nil
             /\ \/ decodeErr[f] = <<"DecryptAndDecompressTar: failed to create new reader",
                                    ": ">> \o ReaderError
                \/ decodeErr[f] = <<"DecryptAndDecompressTar: decrypt failed", ": ">>
                                    \o DecryptError
                \/ decodeErr[f] = <<"WAL-G does not support the file format '",
                                    GetFileExtension(Path(f)), "' in '", Path(f), "'">>
        /\ producer[f] \in {"release", "done"} => f \in reported
        /\ \A i \in 1 .. Len(waves) : f \in waves[i].run /\ f \in waves[i].failed
        /\ Len(waves) <= Log2Floor(maxDownloadConcurrency) + Cardinality(files)
        /\ ~Done => ENABLED Next
        /\ Done => (GaveUp /\ Path(f) \in result.paths)

C8_Witness ==
    /\ GaveUp
    /\ Cardinality(files) = 2
    /\ result.paths = {"data.xyz"}

\* C9: at most C producer goroutines and at most C consumer goroutines run,
\* and while the launch loop runs every running goroutine holds one unit of
\* its semaphore: the goroutines of a file start after both units are taken.
C9_BoundedConcurrency ==
    /\ Cardinality(RunningProducers) <= downloadingConcurrency
    /\ Cardinality(RunningConsumers) <= downloadingConcurrency
    /\ downloadingSemaphore >= 0
    /\ writingSemaphore >= 0
    /\ pc \in {"launch", "acquired"} =>
         /\ Cardinality(RunningProducers) + (IF pc = "acquired" THEN 1 ELSE 0)
              = downloadingConcurrency - downloadingSemaphore
         /\ Cardinality(RunningConsumers) = downloadingConcurrency - writingSemaphore

C9_Witness ==
    /\ pc = "launch"
    /\ launched # currentRun
    /\ Cardinality(RunningProducers) = downloadingConcurrency
    /\ Cardinality(RunningConsumers) = downloadingConcurrency

\* C10: tryExtractFiles reads the failed set and returns only when every
\* goroutine of the wave has finished: no goroutine runs while the failed set
\* is read, between waves or after the return.
C10_WavesSequential ==
    /\ pc \in {"entry", "collect", "after", "loop", "done"} => TasksFinished
    /\ pc \in {"collect", "after"} =>
         \A f \in currentRun : producer[f] = "done" /\ consumer[f] = "done"

C10_Witness ==
    /\ pc = "collect"
    /\ Cardinality(currentRun) = 2
    /\ downloadingConcurrency >= 2
    /\ Cardinality(isFailed) = 1

\* C11: the failed set tryExtractFiles returns holds each file a stage
\* returned an error for, once (the keys of the map), and nothing else: a
\* goroutine that is at or past its deferred Release has stored its failure,
\* so the read after the drain sees every store, also when both the decode
\* and the extraction of a file failed.
C11_FailedSetComplete ==
    /\ \A f \in Files :
         /\ (consumer[f] = "release" /\ extractErr[f] # nil) => f \in isFailed
         /\ (producer[f] \in {"release", "done"} /\ consumer[f] \in {"release", "done"})
               => (f \in reported <=> f \in isFailed)
    /\ pc = "collect" => RangeKeys(isFailed) = reported
    /\ pc = "after" =>
         /\ failed = reported
         /\ failed \subseteq currentRun
         /\ Cardinality(failed) <= Cardinality(currentRun)
    /\ \A i \in 1 .. Len(waves) :
         Cardinality(waves[i].failed) <= Cardinality(waves[i].run)

C11_Witness ==
    \E f \in Files, g \in Files :
        /\ f # g
        /\ producer[f] = "release" /\ decodeErr[f] # nil
        /\ consumer[f] = "release" /\ extractErr[f] # nil
        /\ producer[g] = "done" /\ decodeErr[g] = nil
        /\ consumer[g] = "release" /\ extractErr[g] # nil
        /\ isFailed = {f, g}

\* C17: a stage that returned has closed its end of the pipe, and the other
\* stage of the file is then not blocked on the pipe: the producer can end or
\* gets the closed-pipe error from its write, the consumer gets the end of
\* the stream from its read; while both run a chunk can pass.  No state
\* before the return of ExtractAllWithSleeper is without a next step.
C17_ClosePropagates ==
    /\ \A f \in Files :
         /\ producer[f] \in {"release", "done"} => writerClosed[f]
         /\ consumer[f] \in {"release", "done"} => readerClosed[f]
         /\ (producer[f] = "copy" /\ consumer[f] \in {"release", "done"})
               => ENABLED (ProducerEnd(f) \/ ProducerWriteClosed(f))
         /\ (consumer[f] = "read" /\ producer[f] \in {"release", "done"})
               => ENABLED ConsumerEOF(f)
         /\ (producer[f] = "copy" /\ consumer[f] = "read")
               => ENABLED (Transfer(f) \/ ProducerEnd(f))
         /\ producer[f] = "release" => ENABLED ProducerRelease(f)
         /\ consumer[f] = "release" => ENABLED ConsumerRelease(f)
    /\ (pc = "launch" /\ launched = currentRun /\ TasksFinished) => ENABLED DrainDownloading
    /\ (pc = "drain" /\ TasksFinished) => ENABLED DrainWriting
    /\ ~Done => ENABLED Next

C17_Witness ==
    \E f \in Files :
        /\ producer[f] = "copy"
        /\ written[f] > 0
        /\ written[f] < Len(Content(f))
        /\ consumer[f] = "done"
        /\ readerClosed[f]

\* The wait the claim C16 gives the sleep after wave i: the minimum after the
\* first wave and after a wave in which a file succeeded, else the wait
\* before it doubled, not above the maximum.
RECURSIVE ClaimedWait(_)
ClaimedWait(i) ==
    IF i = 1 \/ waves[i].failed # waves[i].run
      THEN MinExtractRetryWait
      ELSE SleeperNext(ClaimedWait(i - 1), MaxExtractRetryWait)

\* C16 as stated: the wait between waves starts at the minimum, doubles after
\* each consecutive wave that failed entirely, is capped at the maximum, and
\* is back at the minimum after a wave in which at least one file succeeded.
C16_BackoffResetsAfterProgress ==
    \A i \in 1 .. Len(slept) : slept[i] = ClaimedWait(i)

\* The first position of the stream at which extractOne stops: an item that
\* is no entry, the entry the interpreter fails on, or the end of the stream.
FirstStop ==
    CHOOSE p \in 1 .. Len(source) + 1 :
        /\ p = Len(source) + 1 \/ source[p] # "hdr" \/ p = failAt
        /\ \A q \in 1 .. p - 1 : source[q] = "hdr" /\ q # failAt

\* C12: extractOne gives the entries of the stream to the interpreter once
\* each and in stream order; it stops at the first header that does not parse
\* or the first error of the interpreter, with an error and no later entry
\* interpreted; at the end of the archive it returns nil, with no call of the
\* interpreter when the stream has no entry.
C12_EntriesInOrderOnce ==
    call \in {"extractOne", "returned"} =>
        /\ \A i \in 1 .. Len(interpreted) : interpreted[i] = i /\ source[i] = "hdr"
        /\ Len(interpreted) <= FirstStop
        /\ call = "returned" =>
             IF FirstStop <= Len(source) /\ source[FirstStop] = "hdr"
               THEN /\ Len(interpreted) = FirstStop
                    /\ ret = <<"extractOne: Extract failed", ": ">> \o InterpretError
             ELSE IF FirstStop <= Len(source) /\ source[FirstStop] = "pad"
               THEN /\ Len(interpreted) = FirstStop - 1
                    /\ ret = <<"extractOne: tar extract failed", ": ">> \o ErrHeader
             ELSE /\ Len(interpreted) = FirstStop - 1
                  /\ ret = nil
        /\ (call = "returned" /\ (source = <<>> \/ source[1] = "end")) =>
             ret = nil /\ interpreted = <<>>

C12_Witness ==
    /\ call = "returned"
    /\ source = <<"hdr", "hdr", "hdr">>
    /\ failAt = 2
    /\ interpreted = <<1, 2>>
    /\ ret # nil

\* No system call before the sync fails: the whole stream is copied.
CopySucceeds ==
    /\ "mkdir" \notin faults
    /\ "open" \notin faults
    /\ failAt = 0 \/ failAt > Len(source)

\* C13: extractFile returns nil only when the whole stream was copied and
\* the file was synced after the copy; when the copy succeeds and the sync
\* fails it returns the sync error.
C13_SuccessOnlyAfterCopyAndSync ==
    call = "returned" =>
        /\ ret = nil => (consumed = Len(source) /\ synced /\ CopySucceeds
                          /\ "sync" \notin faults)
        /\ (CopySucceeds /\ "sync" \in faults) =>
             /\ ret = <<"Extract: sync failed", ": ">> \o SyncError
             /\ ~synced

C13_Witness ==
    /\ call = "returned"
    /\ CopySucceeds
    /\ "sync" \in faults
    /\ Len(source) = MaxStream
    /\ disk = source
    /\ ret # nil

\* C14: after extractFile returned nil the destination holds the bytes of
\* the stream of that call and nothing else, whatever it held when the call
\* began: nothing, the same bytes, or more or fewer bytes of an earlier call.
C14_ReextractionIdempotent ==
    (call = "returned" /\ ret = nil) => disk = source

C14_Witness ==
    /\ call = "returned"
    /\ ret = nil
    /\ Len(before) > Len(source)
    /\ Len(source) > 0
    /\ before[1] # source[1]
    /\ disk = source

\* The system call of extractFile that fails first in this call.
FailingPhase ==
    IF "mkdir" \in faults THEN "mkdir"
    ELSE IF "open" \in faults THEN "open"
    ELSE IF failAt \in 1 .. Len(source) THEN "copy"
    ELSE IF "sync" \in faults THEN "sync"
    ELSE "none"

\* The phase an error of extractFile names.
NamedPhase(err) ==
    IF err = nil THEN "none"
    ELSE IF err = MkdirError THEN "mkdir"
    ELSE IF err = OpenError \/ err[1] = "Extract: open failed" THEN "open"
    ELSE IF err[1] = "Extract: copy failed" THEN "copy"
    ELSE IF err[1] = "Extract: sync failed" THEN "sync"
    ELSE "other"

\* C18 as stated: the error extractFile returns names the system call that
\* failed: the mkdir, the open, the copy or the sync.
C18_ErrorNamesFailingPhase ==
    call = "returned" => NamedPhase(ret) = FailingPhase

IsData(chunk) == chunk # ""

\* The chunks of data among the first n writes of the decode stage.
DataOf(n) == SelectSeq(SubSeq(source, 1, n), IsData)

\* C15: a zero-length write of the decode stage returns at once, whether or
\* not the reader waits in Read, and nothing of it reaches the pipe; the
\* reader gets exactly the chunks of data written so far, in order, and at the
\* end of a successful decode all of them: zero-length writes neither stall
\* nor cut the stream.
C15_EmptyWriteSwallowed ==
    call \in {"copy", "returned"} =>
        /\ received = DataOf(consumed)
        /\ (call = "copy" /\ consumed < Len(source) /\ consumed + 1 # failAt
              /\ source[consumed + 1] = "") => ENABLED DecodeWrite
        /\ call = "copy" => ENABLED (DecodeWrite \/ DecodeFails \/ DecodeEnds \/ ExtractorRead)
        /\ (extractor = "eof" /\ ret = nil) => received = SelectSeq(source, IsData)

C15_Witness ==
    /\ extractor = "eof"
    /\ ret = nil
    /\ source = <<"", "x">>
    /\ received = <<"x">>

\* The copy of DecryptAndDecompressTar ends with an error of the source.
CopyFails == failAt \in 1 .. Len(source) + 1

\* C19: DecryptAndDecompressTar returns the open error; else the decrypt
\* error; else for extension tar the result of the plain copy, which passes
\* the bytes on unchanged; else for the extension of a registered
\* decompressor its error wrapped as a decompression error, or nil; else the
\* unsupported-file-type error.  With the open, the decrypt or the
\* unsupported-file-type error nothing was written.
C19_DecodeOutcomeOrder ==
    call = "returned" =>
        LET p == Path(readerMaker)
            ext == GetFileExtension(p)
        IN IF "reader" \in faults
             THEN /\ ret = <<"DecryptAndDecompressTar: failed to create new reader", ": ">>
                             \o ReaderError
                  /\ consumed = 0 /\ received = <<>>
           ELSE IF crypter /\ "decrypt" \in faults
             THEN /\ ret = <<"DecryptAndDecompressTar: decrypt failed", ": ">> \o DecryptError
                  /\ consumed = 0 /\ received = <<>>
           ELSE IF ext = "tar"
             THEN /\ ret = IF CopyFails
                             THEN <<"DecryptAndDecompressTar: tar extract failed", ": ">>
                                    \o ReaderError
                             ELSE nil
                  /\ ~CopyFails => received = SelectSeq(source, IsData)
           ELSE IF ext = "gz"
             THEN IF CopyFails
                    THEN /\ ret # nil
                         /\ ret[1] = "DecryptAndDecompressTar: gz decompress failed. Is archive encrypted?"
                         /\ ret[Len(ret)] = ReaderError[1]
                    ELSE ret = nil
           ELSE /\ ret = <<"WAL-G does not support the file format '", ext, "' in '", p, "'">>
                /\ consumed = 0 /\ received = <<>>

C19_Witness ==
    /\ call = "returned"
    /\ readerMaker = "data.xyz"
    /\ crypter
    /\ faults = {"decrypt"}
    /\ Len(source) = MaxStream
    /\ ret[1] = "DecryptAndDecompressTar: decrypt failed"

\* C20: a source stream that DecryptAndDecompressTar opened is closed once
\* when the function returns, on every path, and never before; a stream that
\* failed to open is not closed; when the reader of the pipe has seen the end
\* of the stream no source stream is open.
C20_SourceClosedOnce ==
    call \in {"decode", "copy", "returned"} =>
        /\ closes <= 1
        /\ call = "decode" => (~sourceOpen /\ closes = 0)
        /\ call = "copy" => (sourceOpen /\ closes = 0)
        /\ call = "returned" =>
             /\ ~sourceOpen
             /\ closes = IF "reader" \in faults THEN 0 ELSE 1
        /\ extractor = "eof" => ~sourceOpen

C20_Witness ==
    /\ call = "returned"
    /\ readerMaker = "b.gz"
    /\ faults = {}
    /\ CopyFails
    /\ consumed > 0
    /\ closes = 1
    /\ extractor = "eof"

\* C21: ExtractAllWithSleeper runs at most floor(log2(C0)) + N waves: a wave
\* at a limit above 1 is followed by a wave at half the limit, a wave at
\* limit 1 by a wave on strictly fewer files, and a wave at limit 1 that
\* failed entirely by none; between waves the loop is never without a step,
\* and it returns when no file is left.
C21_BoundedWaves ==
    /\ Len(waves) <= Log2Floor(maxDownloadConcurrency) + Cardinality(files)
    /\ \A i \in 1 .. Len(waves) - 1 :
         IF waves[i].limit > 1
           THEN /\ waves[i + 1].limit = waves[i].limit \div 2
                /\ waves[i + 1].run \subseteq waves[i].run
           ELSE /\ waves[i + 1].limit = 1
                /\ waves[i + 1].run \subseteq waves[i].run
                /\ waves[i + 1].run # waves[i].run
    /\ InWave => Len(waves) < Log2Floor(maxDownloadConcurrency) + Cardinality(files)
    /\ pc \in {"entry", "loop", "collect", "after"} =>
         ENABLED (Enter \/ StartWave \/ Collect \/ AfterWave)
    /\ (pc = "loop" /\ currentRun = {}) => ENABLED (StartWave /\ pc' = "done")

C21_Witness ==
    /\ Done
    /\ Cardinality(files) = MaxFiles
    /\ maxDownloadConcurrency = MaxConcurrency
    /\ Len(waves) = Log2Floor(maxDownloadConcurrency) + Cardinality(files)

\* The error of a write to a pipe whose read end is closed.
IsClosedPipe(err) == err # nil /\ err[Len(err)] = ErrClosedPipe[1]

\* C22 as stated: a step records a file as failed only when its source (the
\* open, the decryption, the codec) raised an error or its extractor returned
\* an error, not when the decode stage was stopped by the closed pipe of an
\* extractor that returned success.
C22_FailedOnlyOnStageError ==
    [][\A f \in Files :
         (f \notin isFailed /\ f \in isFailed') =>
             \/ decodeErr'[f] # nil /\ ~IsClosedPipe(decodeErr'[f])
             \/ extractErr'[f] # nil]_vars

====
